---- MODULE Spec2Model ----
(***************************************************************************)
(* Model of examples/math_st.c: the two wrapper functions MYLOG and        *)
(* MYPRINTF, their parameter blocks, and the standard output stream they   *)
(* share.  The C library calls they make (printf, log10, the conversion    *)
(* of a double to int) are modelled by what they compute; where the C      *)
(* standard leaves the behaviour undefined the model chooses among the     *)
(* outcomes real builds produce.                                           *)
(***************************************************************************)
EXTENDS Integers, Sequences, FiniteSets, TLC

VARIABLES
    arch,     \* the instruction set the program was built for
    alive,    \* FALSE once the process has been killed (SIGSEGV / abort)
    frame,    \* per caller: the parameter blocks it owns and the position of its call
    stdout,   \* the stream: the accepted writes, oldest first
    calls,    \* number of calls started so far
    hist      \* the calls that have returned

vars == <<arch, alive, frame, stdout, calls, hist>>

(***************************************************************************)
(* Bounds of the model.                                                    *)
(***************************************************************************)
NumCallers == 2
MaxCalls == 2
MaxLen == 3

(***************************************************************************)
(* int is 32 bits wide (fields x and value, the results of both functions).*)
(***************************************************************************)
INT_MAX == 2147483647
INT_MIN == -INT_MAX - 1
TextCapacity == 81

Callers == 1..NumCallers

(***************************************************************************)
(* Text.  A C string is the sequence of its characters before the NUL.     *)
(***************************************************************************)
Digit(n) == CASE n = 0 -> "0" [] n = 1 -> "1" [] n = 2 -> "2" [] n = 3 -> "3"
              [] n = 4 -> "4" [] n = 5 -> "5" [] n = 6 -> "6" [] n = 7 -> "7"
              [] n = 8 -> "8" [] n = 9 -> "9"

RECURSIVE Digits(_)
Digits(n) == IF n < 10 THEN <<Digit(n)>> ELSE Append(Digits(n \div 10), Digit(n % 10))

\* The text "%d" produces for v.  A negative v is split into its last digit
\* and the rest before the sign is dropped, so that INT_MIN needs no 33rd bit.
DecimalText(v) ==
    IF v >= 0 THEN Digits(v)
    ELSE LET last == (10 - (v % 10)) % 10
             rest == -((v + last) \div 10)
         IN <<"-">> \o (IF rest = 0 THEN <<>> ELSE Digits(rest)) \o <<Digit(last)>>

\* Variant: one space before the value.
ResultFmt_oneSpace == <<"r","e","s","u","l","t"," ",":"," ","%","d","\n">>

\* The two format strings of MYLOG.
CallingFmt == <<"C","a","l","l","i","n","g"," ","l","o","g"," ","w","i","t","h"," ","%","d","\n">>
ResultFmt == <<"r","e","s","u","l","t"," ",":"," "," ","%","d","\n">>

\* Variant: the two format strings exchanged.
MYLOG_fmt_swapped(line) == IF line = 14 THEN ResultFmt ELSE CallingFmt

\* The format string the printf of source line `line` of MYLOG is given.
MYLOG_fmt(line) == IF line = 14 THEN CallingFmt ELSE ResultFmt

(***************************************************************************)
(* printf.  The format is scanned left to right; "%" starts a conversion   *)
(* specification: optional flags (of the characters used here only the     *)
(* space is one), then the conversion character.                           *)
(*   d  takes the next int argument and writes its decimal text;           *)
(*   %  writes a percent sign;                                             *)
(*   n  takes the next argument as an int* and stores the number of        *)
(*      characters produced so far through it;                             *)
(* anything else, or a "%" that ends the string, is no conversion          *)
(* specification.  The behaviour is undefined when a conversion finds no   *)
(* argument left, when the argument has the wrong type, and when the       *)
(* specification is invalid.  u picks the outcome:                         *)
(*   u.garbage  the int a "%d" reads where no argument was passed;         *)
(*   u.invalid  "echo": an invalid specification is copied to the output   *)
(*              (glibc); "fail": the call fails, nothing written (musl);   *)
(*   u.nptr     where the int* of "%n" points: "value" the caller's value  *)
(*              field, "wild" memory the model does not hold, "crash" an   *)
(*              unmapped page (or a libc that aborts on "%n").             *)
(* The pointer "%n" takes is the int that was passed, if one is left: it   *)
(* points to the value field when that int is the field's address (self),  *)
(* and elsewhere otherwise.  With no argument left it is whatever the      *)
(* argument slot holds.                                                    *)
(***************************************************************************)
Garbage == {0, 12345}
UBChoices == [garbage : Garbage, invalid : {"echo", "fail"}, nptr : {"value", "wild", "crash"}]

RECURSIVE SkipFlags(_, _)
SkipFlags(fmt, j) == IF j <= Len(fmt) /\ fmt[j] = " " THEN SkipFlags(fmt, j + 1) ELSE j

\* The result: kind "ok" | "einval" | "crash"; text, the characters produced;
\* poke, <<n>> when "%n" stored n into the caller's value field, else <<>>;
\* ub, whether the scan met undefined behaviour (and so consulted u).
NTarget(args, self, u) ==
    IF args = <<>> THEN u.nptr
    ELSE IF Head(args) = self THEN (IF u.nptr = "crash" THEN "crash" ELSE "value")
    ELSE (IF u.nptr = "crash" THEN "crash" ELSE "wild")

RECURSIVE vfprintf(_, _, _, _, _, _, _, _)
vfprintf(fmt, i, args, out, poke, ub, u, self) ==
    IF i > Len(fmt) THEN [kind |-> "ok", text |-> out, poke |-> poke, ub |-> ub]
    ELSE IF fmt[i] # "%" THEN vfprintf(fmt, i + 1, args, Append(out, fmt[i]), poke, ub, u, self)
    ELSE LET j == SkipFlags(fmt, i + 1)
             sp == j > i + 1
             rest == IF args = <<>> THEN <<>> ELSE Tail(args)
             bad == IF u.invalid = "fail"
                    THEN [kind |-> "einval", text |-> <<>>, poke |-> poke, ub |-> TRUE]
                    ELSE IF j > Len(fmt)
                    THEN [kind |-> "ok", text |-> out \o SubSeq(fmt, i, Len(fmt)),
                          poke |-> poke, ub |-> TRUE]
                    ELSE vfprintf(fmt, j + 1, args, out \o SubSeq(fmt, i, j), poke, TRUE, u, self)
         IN IF j > Len(fmt) THEN bad
            ELSE IF fmt[j] = "d"
            THEN LET v == IF args = <<>> THEN u.garbage ELSE Head(args)
                     s == IF sp /\ v >= 0 THEN <<" ">> ELSE <<>>
                 IN vfprintf(fmt, j + 1, rest, out \o s \o DecimalText(v), poke,
                             ub \/ args = <<>>, u, self)
            ELSE IF fmt[j] = "%" /\ ~sp
            THEN vfprintf(fmt, j + 1, args, Append(out, "%"), poke, ub, u, self)
            ELSE IF fmt[j] = "n" /\ ~sp
            THEN CASE NTarget(args, self, u) = "crash" ->
                        [kind |-> "crash", text |-> <<>>, poke |-> poke, ub |-> TRUE]
                   [] NTarget(args, self, u) = "value" -> vfprintf(fmt, j + 1, rest, out, <<Len(out)>>, TRUE, u, self)
                   [] OTHER -> vfprintf(fmt, j + 1, rest, out, poke, TRUE, u, self)
            ELSE bad

\* What one call printf(fmt, args...) can do.  accepted: the stream takes the
\* bytes; otherwise the write fails and printf returns a negative value.
\*   rc     the value printf returns
\*   err    "none", "EIO" (the stream refused the write) or "EINVAL"
\*   text   the characters that reached the stream
\*   poke   as above
\*   crash  the process was killed inside the call
PrintfResult(r, accepted) ==
    CASE r.kind = "crash" -> [crash |-> TRUE, rc |-> 0, err |-> "none", text |-> <<>>, poke |-> <<>>]
      [] r.kind = "einval" -> [crash |-> FALSE, rc |-> -1, err |-> "EINVAL", text |-> <<>>, poke |-> r.poke]
      [] r.kind = "ok" /\ accepted ->
            [crash |-> FALSE, rc |-> Len(r.text), err |-> "none", text |-> r.text, poke |-> r.poke]
      [] OTHER -> [crash |-> FALSE, rc |-> -1, err |-> "EIO", text |-> <<>>, poke |-> r.poke]

\* A format whose scan meets no undefined behaviour has one result whatever u.
\* self: the address of the caller's value field.
printf(fmt, args, self) ==
    LET u0 == CHOOSE u \in UBChoices : TRUE
        r0 == vfprintf(fmt, 1, args, <<>>, <<>>, FALSE, u0, self)
        rs == IF r0.ub THEN {vfprintf(fmt, 1, args, <<>>, <<>>, FALSE, u, self) : u \in UBChoices}
              ELSE {r0}
    IN {PrintfResult(r, accepted) : r \in rs, accepted \in BOOLEAN}

(***************************************************************************)
(* log10 and the conversion of its result to int.                          *)
(* A double is kept as its class and, when finite, as whole = floor(d)     *)
(* and frac = (d is not an integer).  log10 of an int x >= 1 is exact at   *)
(* the powers of ten (fdlibm, glibc, musl: log10(10**N) = N) and lies      *)
(* strictly between two integers elsewhere (10^k - 1 is further from 10^k  *)
(* than a double's precision for every 32-bit x).  log10(0) is -infinity,  *)
(* log10 of a negative number is NaN.                                      *)
(***************************************************************************)
RECURSIVE FloorLog10(_)
FloorLog10(x) == IF x < 10 THEN 0 ELSE 1 + FloorLog10(x \div 10)

RECURSIVE IsPow10(_)
IsPow10(x) == x = 1 \/ (x >= 10 /\ x % 10 = 0 /\ IsPow10(x \div 10))

\* Variant: the logarithm taken as log(x)/log(10), which falls just short of
\* the integer at 1000 and above.
log10_quotient(x) ==
    IF x < 0 THEN [cls |-> "nan", whole |-> 0, frac |-> FALSE]
    ELSE IF x = 0 THEN [cls |-> "ninf", whole |-> 0, frac |-> FALSE]
    ELSE IF IsPow10(x) /\ x >= 1000
    THEN [cls |-> "finite", whole |-> FloorLog10(x) - 1, frac |-> TRUE]
    ELSE [cls |-> "finite", whole |-> FloorLog10(x), frac |-> ~IsPow10(x)]

log10(x) ==
    IF x < 0 THEN [cls |-> "nan", whole |-> 0, frac |-> FALSE]
    ELSE IF x = 0 THEN [cls |-> "ninf", whole |-> 0, frac |-> FALSE]
    ELSE [cls |-> "finite", whole |-> FloorLog10(x), frac |-> ~IsPow10(x)]

\* (int) d.  A finite d in range is truncated toward zero.  NaN and the
\* infinities are out of range, which is undefined; what comes out is what
\* the conversion instruction of the build gives: on x86-64 (cvttsd2si)
\* INT_MIN for both, on AArch64 (fcvtzs) 0 for NaN and INT_MIN for -infinity.
Archs == {"x86-64", "aarch64"}

CastUB(d) == IF arch = "aarch64" /\ d.cls = "nan" THEN 0 ELSE INT_MIN

\* Variant: the conversion rounds up instead of truncating.
CastToInt_ceil(d) ==
    IF d.cls = "finite"
    THEN (IF d.frac THEN d.whole + 1 ELSE d.whole)
    ELSE CastUB(d)

CastToInt(d) ==
    IF d.cls = "finite"
    THEN (IF d.whole < 0 /\ d.frac THEN d.whole + 1 ELSE d.whole)
    ELSE CastUB(d)

(***************************************************************************)
(* State.                                                                  *)
(***************************************************************************)
\* Where caller c's MYPRINTF_interface lies (a static object of a non-PIE
\* image; the blocks are 88 bytes: text[81], padding, value at offset 84).
AddrOfValue(c) == 4210688 + 88 * (c - 1) + 84

MYLOG_interface(x) == [x |-> x]
MYPRINTF_interface(text, value) == [text |-> text, value |-> value]

\* A caller owns one parameter block of each kind (log, prt), zeroed at start.
\*   pc     "idle" | "L14" | "L15" | "L16" | "L21" | "done" | "killed"
\*   op     the function of the current (or last) call
\*   id     the number of that call
\*   log0, prt0   the blocks as they were when the call was entered
\*   res    MYLOG's local
\*   ret    the value returned (meaningful at "done")
\*   io     the printf calls made so far in this call: <<[rc, err]>>
IdleFrame ==
    [pc |-> "idle", op |-> "none", id |-> 0,
     log |-> MYLOG_interface(0), prt |-> MYPRINTF_interface(<<>>, 0),
     log0 |-> MYLOG_interface(0), prt0 |-> MYPRINTF_interface(<<>>, 0),
     res |-> 0, ret |-> 0, io |-> <<>>]

Init ==
    /\ arch \in Archs
    /\ alive = TRUE
    /\ frame = [c \in Callers |-> IdleFrame]
    /\ stdout = <<>>
    /\ calls = 0
    /\ hist = {}

\* The texts call number id has put on the stream, in order.
RECURSIVE WrittenBy(_, _)
WrittenBy(id, s) ==
    IF s = <<>> THEN <<>>
    ELSE IF Head(s).id = id THEN <<Head(s).text>> \o WrittenBy(id, Tail(s))
    ELSE WrittenBy(id, Tail(s))

CanCall(c) == alive /\ frame[c].pc \in {"idle", "done"} /\ calls < MaxCalls

\* The caller fills in a MYLOG_interface and calls MYLOG(&it).
CallMYLOG(c, x) ==
    /\ CanCall(c)
    /\ frame' = [frame EXCEPT ![c] =
          [@ EXCEPT !.pc = "L14", !.op = "MYLOG", !.id = calls + 1,
                    !.log = MYLOG_interface(x), !.log0 = MYLOG_interface(x), !.prt0 = frame[c].prt,
                    !.res = 0, !.ret = 0, !.io = <<>>]]
    /\ calls' = calls + 1
    /\ UNCHANGED <<arch, alive, stdout, hist>>

\* The caller fills in a MYPRINTF_interface and calls MYPRINTF(&it).
CallMYPRINTF(c, text, value) ==
    /\ CanCall(c)
    /\ Len(text) < TextCapacity
    /\ frame' = [frame EXCEPT ![c] =
          [@ EXCEPT !.pc = "L21", !.op = "MYPRINTF", !.id = calls + 1,
                    !.prt = MYPRINTF_interface(text, value),
                    !.prt0 = MYPRINTF_interface(text, value), !.log0 = frame[c].log,
                    !.res = 0, !.ret = 0, !.io = <<>>]]
    /\ calls' = calls + 1
    /\ UNCHANGED <<arch, alive, stdout, hist>>

\* The effect of one printf outcome o on caller c's memory and on the stream.
AfterPrintf(f, o) ==
    [f EXCEPT !.io = Append(@, [rc |-> o.rc, err |-> o.err]),
              !.prt = IF o.poke = <<>> THEN @ ELSE [@ EXCEPT !.value = o.poke[1]]]

StreamAfter(c, o) ==
    IF o.text = <<>> THEN stdout
    ELSE Append(stdout, [by |-> c, id |-> frame[c].id, text |-> o.text])

Returned(f, out) ==
    [op |-> f.op, x |-> f.log0.x, text |-> f.prt0.text, value |-> f.prt0.value,
     ret |-> f.ret, io |-> f.io, wrote |-> WrittenBy(f.id, out)]

Kill(c) ==
    /\ alive' = FALSE
    /\ frame' = [frame EXCEPT ![c].pc = "killed"]
    /\ UNCHANGED <<arch, stdout, calls, hist>>

\* line 14: printf("Calling log with %d\n", param->x);
MYLOG_L14(c) ==
    /\ alive /\ frame[c].pc = "L14"
    /\ \E o \in printf(MYLOG_fmt(14), <<frame[c].log.x>>, AddrOfValue(c)) :
          IF o.crash THEN Kill(c)
          ELSE /\ frame' = [frame EXCEPT ![c] = [AfterPrintf(@, o) EXCEPT !.pc = "L15"]]
               /\ stdout' = StreamAfter(c, o)
               /\ UNCHANGED <<arch, alive, calls, hist>>

\* line 15: int res = (int) log10(param->x);
MYLOG_L15(c) ==
    /\ alive /\ frame[c].pc = "L15"
    /\ frame' = [frame EXCEPT ![c] =
          [@ EXCEPT !.res = CastToInt(log10(frame[c].log.x)), !.pc = "L16"]]
    /\ UNCHANGED <<arch, alive, stdout, calls, hist>>

\* lines 16-17: printf("result :  %d\n", res); return res;
MYLOG_return(res) == res

MYLOG_L16(c) ==
    /\ alive /\ frame[c].pc = "L16"
    /\ \E o \in printf(MYLOG_fmt(16), <<frame[c].res>>, AddrOfValue(c)) :
          IF o.crash THEN Kill(c)
          ELSE LET f == [AfterPrintf(frame[c], o) EXCEPT !.pc = "done", !.ret = MYLOG_return(frame[c].res)]
               IN /\ frame' = [frame EXCEPT ![c] = f]
                  /\ stdout' = StreamAfter(c, o)
                  /\ hist' = hist \cup {Returned(f, stdout')}
                  /\ UNCHANGED <<arch, alive, calls>>

\* line 21: return printf(param->text, param->value);
\* Variant: the text is written as it is, fputs(param->text, stdout).
MYPRINTF_call_verbatim(param, self) ==
    {PrintfResult([kind |-> "ok", text |-> param.text, poke |-> <<>>, ub |-> FALSE], accepted) :
        accepted \in BOOLEAN}

MYPRINTF_call(param, self) == printf(param.text, <<param.value>>, self)

\* Variant: a failed write is reported as zero characters written.
MYPRINTF_return_clamped(rc) == IF rc < 0 THEN 0 ELSE rc

MYPRINTF_return(rc) == rc

MYPRINTF_L21(c) ==
    /\ alive /\ frame[c].pc = "L21"
    /\ \E o \in MYPRINTF_call(frame[c].prt, AddrOfValue(c)) :
          IF o.crash THEN Kill(c)
          ELSE LET f == [AfterPrintf(frame[c], o) EXCEPT !.pc = "done", !.ret = MYPRINTF_return(o.rc)]
               IN /\ frame' = [frame EXCEPT ![c] = f]
                  /\ stdout' = StreamAfter(c, o)
                  /\ hist' = hist \cup {Returned(f, stdout')}
                  /\ UNCHANGED <<arch, alive, calls>>

Step(c) == MYLOG_L14(c) \/ MYLOG_L15(c) \/ MYLOG_L16(c) \/ MYPRINTF_L21(c)

(***************************************************************************)
(* Inputs.                                                                 *)
(***************************************************************************)
ValueTemplate == <<"V","a","l","u","e",":"," ","%","d">>
TwoArgTemplate == <<"%","d"," ","%","d">>

RECURSIVE Pow10(_)
Pow10(k) == IF k = 0 THEN 1 ELSE 10 * Pow10(k - 1)

\* Spec: several callers running concurrently, a few inputs each.
ConcXs == {100}
ConcTexts == {<<"%","d">>, TwoArgTemplate}
ConcValues == {1}

\* SpecSeq: one caller, one call after the other.
SeqXs == {-5, 0, 100}
SeqTexts == {<<"%","d">>, TwoArgTemplate}
SeqValues == {1}

\* SpecCall: one call, many inputs.  The x are the powers of ten that fit an
\* int with their neighbours, the ends of the range, and a few between.
Alphabet == {"a", "%", "d", "n"}
Templates == UNION {[1..k -> Alphabet] : k \in 0..MaxLen} \cup {ValueTemplate, TwoArgTemplate}
Values == {-7, 0, 1, 42, AddrOfValue(1)}
LogInputs ==
    {Pow10(k) + d : k \in 0..9, d \in {-1, 0, 1}}
        \cup {2, 5, 50, 2000000000, INT_MAX, -1, -5, INT_MIN}

Next ==
    \/ \E c \in Callers, x \in ConcXs : CallMYLOG(c, x)
    \/ \E c \in Callers, t \in ConcTexts, v \in ConcValues : CallMYPRINTF(c, t, v)
    \/ \E c \in Callers : Step(c)

Spec == Init /\ [][Next]_vars

NextSeq ==
    \/ \E x \in SeqXs : CallMYLOG(1, x)
    \/ \E t \in SeqTexts, v \in SeqValues : CallMYPRINTF(1, t, v)
    \/ Step(1)

SpecSeq == Init /\ [][NextSeq]_vars

NextCall ==
    \/ \E x \in LogInputs : calls = 0 /\ CallMYLOG(1, x)
    \/ \E t \in Templates, v \in Values : calls = 0 /\ CallMYPRINTF(1, t, v)
    \/ Step(1)

SpecCall == Init /\ [][NextCall]_vars

(***************************************************************************)
(* Properties.                                                             *)
(***************************************************************************)
Finished(c, op) == frame[c].pc = "done" /\ frame[c].op = op

\* Whether the i-th printf of the call in frame f was taken by the stream.
Accepted(f, i) == f.io[i].err = "none"

PowersOfTen == {Pow10(k) : k \in 0..9}

\* C1: for every x > 0 MYLOG returns the k >= 0 with 10^k <= x < 10^(k+1)
\* (x < 10^(k+1) is stated as x div 10 < 10^k, which needs no 10^10);
\* MYLOG(1) = 0, MYLOG(99) = 1, MYLOG(100) = 2, MYLOG(1000) = 3.
C1_TruncatedLog ==
    \A c \in Callers :
        Finished(c, "MYLOG") /\ frame[c].log0.x > 0 =>
            LET x == frame[c].log0.x
                k == frame[c].ret
            IN /\ k \in 0..9
               /\ Pow10(k) <= x
               /\ x \div 10 < Pow10(k)
               /\ (x = 1 => k = 0)
               /\ (x = 99 => k = 1)
               /\ (x = 100 => k = 2)
               /\ (x = 1000 => k = 3)

C1_Witness ==
    \E c \in Callers : Finished(c, "MYLOG") /\ frame[c].log0.x = 1000 /\ frame[c].ret = 3

\* C10: for 1 <= x <= INT_MAX the result of MYLOG is in 0..9, it is no larger
\* than the result for any larger input and no smaller than the result for any
\* smaller one, and it exceeds the result for x - 1 by 1 when x is a power of
\* ten and by 0 otherwise.
MYLOG_value(y) == CastToInt(log10(y))

C10_RangeAndMonotone ==
    \A c \in Callers :
        Finished(c, "MYLOG") /\ frame[c].log0.x > 0 =>
            LET x == frame[c].log0.x
                r == frame[c].ret
            IN /\ r \in 0..9
               /\ \A y \in LogInputs :
                     /\ (0 < y /\ y <= x => MYLOG_value(y) <= r)
                     /\ (x <= y => r <= MYLOG_value(y))
               /\ (x > 1 => r - MYLOG_value(x - 1) = (IF x \in PowersOfTen THEN 1 ELSE 0))

C10_Witness ==
    \E c \in Callers : Finished(c, "MYLOG") /\ frame[c].log0.x = INT_MAX /\ frame[c].ret = 9

\* The templates C3 is about: no "%" at all, or one "%" and a "d" right after it.
PercentAt(t) == {i \in 1..Len(t) : t[i] = "%"}

AtMostOneIntDirective(t) ==
    /\ Cardinality(PercentAt(t)) <= 1
    /\ \A i \in PercentAt(t) : i < Len(t) /\ t[i + 1] = "d"

\* Such a template with its directive replaced by the decimal text of v.
Substituted(t, v) ==
    IF PercentAt(t) = {} THEN t
    ELSE LET i == CHOOSE j \in PercentAt(t) : TRUE
         IN SubSeq(t, 1, i - 1) \o DecimalText(v) \o SubSeq(t, i + 2, Len(t))

\* What a call leaves on the stream when it writes the text s once.
Once(s) == IF s = <<>> THEN <<>> ELSE <<s>>

\* C3: for a template with at most one "%d" and nothing else after a "%",
\* MYPRINTF puts exactly the substituted template on the stream, nothing
\* added, and returns its length (when the stream refuses the write nothing
\* is put on it); "Value: %d" with 42 gives "Value: 42" and 9.
C3_SubstitutedText ==
    \A c \in Callers :
        Finished(c, "MYPRINTF") /\ AtMostOneIntDirective(frame[c].prt0.text) =>
            LET f == frame[c]
                want == Substituted(f.prt0.text, f.prt0.value)
                wrote == WrittenBy(f.id, stdout)
            IN /\ Accepted(f, 1) => wrote = Once(want) /\ f.ret = Len(want)
               /\ ~Accepted(f, 1) => wrote = <<>>
               /\ f.prt0.text = ValueTemplate /\ f.prt0.value = 42 /\ Accepted(f, 1) =>
                     /\ wrote = << <<"V","a","l","u","e",":"," ","4","2">> >>
                     /\ f.ret = 9

C3_Witness ==
    \E c \in Callers :
        /\ Finished(c, "MYPRINTF")
        /\ frame[c].prt0.text = ValueTemplate /\ frame[c].prt0.value = 42
        /\ frame[c].ret = 9
        /\ Len(stdout) = 1
        /\ stdout[1].text = <<"V","a","l","u","e",":"," ","4","2">>

\* The two lines of MYLOG, written out.
CallingLine(x) ==
    <<"C","a","l","l","i","n","g"," ","l","o","g"," ","w","i","t","h"," ">>
        \o DecimalText(x) \o <<"\n">>

ResultLine(r) == <<"r","e","s","u","l","t"," ",":"," "," ">> \o DecimalText(r) \o <<"\n">>

\* What a MYLOG call in frame f has on the stream once it made n printf calls
\* (a line the stream refused is missing).
LinesOf(f, n) ==
    (IF n >= 1 /\ Accepted(f, 1) THEN <<CallingLine(f.log0.x)>> ELSE <<>>)
        \o (IF n >= 2 /\ Accepted(f, 2) THEN <<ResultLine(f.ret)>> ELSE <<>>)

\* C4: a MYLOG call makes two writes and no more: "Calling log with <x>"
\* before the logarithm is computed (it is on the stream while the call is at
\* line 15), then "result :  <res>" with the value the call returns.
C4_TwoLines ==
    \A c \in Callers :
        LET f == frame[c]
            wrote == WrittenBy(f.id, stdout)
        IN /\ f.pc = "L14" => f.io = <<>> /\ wrote = <<>>
           /\ f.pc \in {"L15", "L16"} => Len(f.io) = 1 /\ wrote = LinesOf(f, 1)
           /\ Finished(c, "MYLOG") => Len(f.io) = 2 /\ wrote = LinesOf(f, 2)

C4_Witness ==
    \E c \in Callers :
        /\ Finished(c, "MYLOG") /\ frame[c].log0.x = 100 /\ frame[c].ret = 2
        /\ Len(stdout) = 2
        /\ stdout[1].text = <<"C","a","l","l","i","n","g"," ","l","o","g"," ","w","i","t","h"," ",
                              "1","0","0","\n">>
        /\ stdout[2].text = <<"r","e","s","u","l","t"," ",":"," "," ","2","\n">>

\* The number of characters call number id has put on the stream.
RECURSIVE CharsBy(_, _)
CharsBy(id, s) ==
    IF s = <<>> THEN 0
    ELSE (IF Head(s).id = id THEN Len(Head(s).text) ELSE 0) + CharsBy(id, Tail(s))

\* C8: MYPRINTF calls printf once and returns what printf returned: the
\* number of characters put on the stream, or a negative value when nothing
\* was put on it.
C8_OneAttempt ==
    \A c \in Callers :
        Finished(c, "MYPRINTF") =>
            LET f == frame[c]
            IN /\ Len(f.io) = 1
               /\ f.ret = f.io[1].rc
               /\ Accepted(f, 1) => f.ret >= 0 /\ f.ret = CharsBy(f.id, stdout)
               /\ ~Accepted(f, 1) => f.ret < 0 /\ CharsBy(f.id, stdout) = 0

C8_Witness ==
    \E c \in Callers :
        /\ Finished(c, "MYPRINTF")
        /\ frame[c].io = <<[rc |-> -1, err |-> "EIO"]>>
        /\ frame[c].ret = -1
        /\ stdout = <<>>

\* The templates C2 is about: two or more "%d" directives.
IntDirectivesAt(t) ==
    {i \in 1..Len(t) - 1 : t[i] = "%" /\ t[i + 1] = "d" /\ (i = 1 \/ t[i - 1] # "%")}

NeedsSeveralArgs(t) == Cardinality(IntDirectivesAt(t)) >= 2

\* C2: MYPRINTF given a template that needs more than one argument ("%d %d"
\* with value 1) fails and writes nothing.
C2_RejectsSeveralArgs ==
    \A c \in Callers :
        Finished(c, "MYPRINTF") /\ NeedsSeveralArgs(frame[c].prt0.text) =>
            /\ frame[c].ret < 0
            /\ ~Accepted(frame[c], 1)
            /\ WrittenBy(frame[c].id, stdout) = <<>>

\* C9: when a call has returned, the caller's parameter blocks hold what they
\* held when the call was entered.
C9_RecordUnchanged ==
    \A c \in Callers :
        frame[c].pc = "done" =>
            /\ frame[c].log = frame[c].log0
            /\ frame[c].prt = frame[c].prt0

\* C5: for x <= 0 MYLOG follows one policy: every such call returns the same
\* value (MYLOG has no way to fail: it returns an int whatever x is).
C5_OnePolicy ==
    \A a, b \in hist :
        a.op = "MYLOG" /\ b.op = "MYLOG" /\ a.x <= 0 /\ b.x <= 0 => a.ret = b.ret

\* The fate of each write of a returned call: taken by the stream or not.
StreamFate(a) == [i \in 1..Len(a.io) |-> a.io[i].err]

\* C6: two calls of the same function with the same inputs (and a stream
\* that treats their writes alike) return the same value and write the same
\* text, whatever was called between them.
C6_SameInputsSameOutputs ==
    \A a, b \in hist :
        /\ a.op = b.op /\ a.x = b.x /\ a.text = b.text /\ a.value = b.value
        /\ StreamFate(a) = StreamFate(b)
        => a.ret = b.ret /\ a.wrote = b.wrote

\* The values a call can return when nothing else runs.
AloneReturns(c) ==
    IF frame[c].op = "MYLOG" THEN {CastToInt(log10(frame[c].log0.x))}
    ELSE {MYPRINTF_return(o.rc) :
             o \in {r \in MYPRINTF_call(frame[c].prt0, AddrOfValue(c)) : ~r.crash}}

IsCallingLine(t) ==
    /\ Len(t) >= 17
    /\ SubSeq(t, 1, 17) = <<"C","a","l","l","i","n","g"," ","l","o","g"," ","w","i","t","h"," ">>

IsResultLine(t) ==
    Len(t) >= 10 /\ SubSeq(t, 1, 10) = <<"r","e","s","u","l","t"," ",":"," "," ">>

\* C7: with callers running concurrently every call returns a value it can
\* return alone (2 for x = 100; 1 for "%d" with 1 when the stream takes the
\* write), a MYLOG call has its own lines on the stream, and its "Calling log"
\* line comes before its "result" line.  That the two lines need not be
\* adjacent is the reachable state C7_Witness.
C7_ConcurrentCalls ==
    /\ \A c \in Callers :
          frame[c].pc = "done" =>
             LET f == frame[c]
             IN /\ f.ret \in AloneReturns(c)
                /\ (f.op = "MYLOG" /\ f.log0.x = 100 => f.ret = 2)
                /\ (f.op = "MYPRINTF" /\ f.prt0 = MYPRINTF_interface(<<"%","d">>, 1)
                       /\ Accepted(f, 1) => f.ret = 1)
                /\ (f.op = "MYLOG" => WrittenBy(f.id, stdout) = LinesOf(f, 2))
    /\ \A i, j \in 1..Len(stdout) :
          /\ stdout[i].id = stdout[j].id
          /\ IsCallingLine(stdout[i].text)
          /\ IsResultLine(stdout[j].text)
          => i < j

C7_Witness ==
    \E i, j, k \in 1..Len(stdout) :
        /\ i < j /\ j < k
        /\ stdout[i].id = stdout[k].id
        /\ IsCallingLine(stdout[i].text)
        /\ IsResultLine(stdout[k].text)
        /\ stdout[j].by # stdout[i].by

====
